---- MODULE Spec2Model ----
(***************************************************************************)
(* Model of app.py: the forecast dashboard script of ST-Teamcast-POC.      *)
(*                                                                         *)
(* The script runs top to bottom once per page load: load_data reads and   *)
(* normalises the CSV, the 14-day window is cut out of it, the box plot    *)
(* (Table A) is drawn or replaced by a warning, and the ranking bar chart  *)
(* (Table B) is computed or replaced by a warning.                         *)
(*                                                                         *)
(* A DataFrame is [columns |-> set of column names, rows |-> sequence of   *)
(* functions from column name to cell].  A cell is a record with a kind:   *)
(* "num" (a number), "str" (a string), "ts" (a timestamp), "date" (a       *)
(* calendar day), "junk" (text that is neither a number nor a date) or     *)
(* "nan"/"nat" (pandas' missing value).  Numbers of the CSV are integers;  *)
(* averages, which pandas computes in floating point, are exact rationals  *)
(* <<numerator, denominator>> in lowest terms.                             *)
(***************************************************************************)
EXTENDS Integers, Sequences, FiniteSets, TLC

\* ------------------------------------------------------------------ bounds

\* Rows of the CSV in the specifications that explore rich cells.
MaxRows == 2
\* Rows of the CSV in the specification Spec (three days of one forecaster).
MaxScenarioRows == 3
\* The day number date.today() returns (days since an epoch).
Anchor == 16

\* ------------------------------------------------------- program constants

\* timedelta(days=14)
WindowDays == 14

MeanLabel == "Mean of ensemble"
MedianLabel == "Median of ensemble"

\* ------------------------------------------------------------------- cells

Num(v) == [kind |-> "num", val |-> v]
NaN == [kind |-> "nan", val |-> 0]
Junk == [kind |-> "junk", val |-> 0]

Str(s) == [kind |-> "str", val |-> s]
NoStr == [kind |-> "nan", val |-> ""]

Ts(d, h) == [kind |-> "ts", day |-> d, hour |-> h]
Day(d) == [kind |-> "date", day |-> d, hour |-> 0]
NaT == [kind |-> "nat", day |-> 0, hour |-> 0]
JunkDate == [kind |-> "junk", day |-> 0, hour |-> 0]

\* Series.isna / Series.notna, cell by cell
isna(c) == c.kind \in {"nan", "nat"}
notna(c) == ~isna(c)

\* pd.to_numeric(..., errors="coerce"): a number stays, anything else is NaN
to_numeric(c) == IF c.kind = "num" THEN c ELSE NaN

\* pd.to_datetime(..., errors="coerce"): a timestamp stays, anything else is NaT
to_datetime(c) == IF c.kind = "ts" THEN c ELSE NaT

\* Series.dt.date: the calendar day of a timestamp, NaT for NaT
dt_date(c) == IF c.kind = "ts" THEN Day(c.day) ELSE NaT

\* (a - b).abs() on two numeric cells; NaN when either is NaN
AbsInt(x) == IF x < 0 THEN -x ELSE x
abs_diff(a, b) == IF notna(a) /\ notna(b) THEN Num(AbsInt(a.val - b.val)) ELSE NaN

\* ---------------------------------------------------------------- rationals

RECURSIVE Gcd(_, _)
Gcd(a, b) == IF b = 0 THEN a ELSE Gcd(b, a % b)

Rat(n, d) ==
    LET g == Gcd(AbsInt(n), d)
    IN  <<n \div g, d \div g>>

RAdd(p, q) == Rat(p[1] * q[2] + q[1] * p[2], p[2] * q[2])
RAbsDiff(p, q) == Rat(AbsInt(p[1] * q[2] - q[1] * p[2]), p[2] * q[2])
RDiv(p, k) == Rat(p[1], p[2] * k)
RLeq(p, q) == p[1] * q[2] <= q[1] * p[2]

RECURSIVE SumInts(_)
SumInts(s) == IF s = <<>> THEN 0 ELSE Head(s) + SumInts(Tail(s))

RECURSIVE SumRats(_)
SumRats(s) == IF s = <<>> THEN Rat(0, 1) ELSE RAdd(Head(s), SumRats(Tail(s)))

\* Series.mean() of a non-empty sequence of integers / of rationals
MeanInts(s) == Rat(SumInts(s), Len(s))
MeanRats(s) == RDiv(SumRats(s), Len(s))

\* ascending insertion of x into the ascending sequence s
RECURSIVE Insert(_, _)
Insert(x, s) ==
    IF s = <<>> THEN <<x>>
    ELSE IF x <= Head(s) THEN <<x>> \o s
    ELSE <<Head(s)>> \o Insert(x, Tail(s))

RECURSIVE SortInts(_)
SortInts(s) == IF s = <<>> THEN <<>> ELSE Insert(Head(s), SortInts(Tail(s)))

\* Series.median() of a non-empty sequence of integers: the middle value, or
\* the mean of the two middle values
MedianInts(s) ==
    LET o == SortInts(s)
        n == Len(s)
    IN  IF n % 2 = 1 THEN Rat(o[(n + 1) \div 2], 1)
        ELSE Rat(o[n \div 2] + o[n \div 2 + 1], 2)

\* -------------------------------------------------------------- DataFrames

Frame(cols, rows) == [columns |-> cols, rows |-> rows]

empty(f) == Len(f.rows) = 0

\* the values of one column, in row order
Column(f, c) == [i \in 1..Len(f.rows) |-> f.rows[i][c]]

\* DataFrame.dropna(subset=...): the rows with no missing value in the subset
dropna(f, subset) ==
    LET keep(r) == \A c \in subset : notna(r[c])
    IN  Frame(f.columns, SelectSeq(f.rows, keep))

\* df[name] = values: add or replace one column (values in row order)
Assign(f, c, values) ==
    Frame(f.columns \cup {c},
          [i \in 1..Len(f.rows) |->
              [k \in f.columns \cup {c} |->
                  IF k = c THEN values[i] ELSE f.rows[i][k]]])

\* ---------------------------------------------------------------- load_data

\* SynthesizeError recomputing every row, a supplied value included
SynthesizeErrorOverwriting(f) ==
    Assign(f, "Absolute Error",
           [i \in 1..Len(f.rows) |->
               abs_diff(f.rows[i]["Forecasted value"], f.rows[i]["Actual value"])])

\* SynthesizeError adding the recomputed error onto the stored one wherever
\* both inputs are present, instead of filling only the gaps
SynthesizeErrorAccumulating(f) ==
    LET stored(r) == IF "Absolute Error" \in f.columns THEN to_numeric(r["Absolute Error"])
                     ELSE NaN
        fresh(r) == abs_diff(r["Forecasted value"], r["Actual value"])
    IN  Assign(f, "Absolute Error",
               [i \in 1..Len(f.rows) |->
                   IF isna(fresh(f.rows[i])) THEN stored(f.rows[i])
                   ELSE Num(stored(f.rows[i]).val + fresh(f.rows[i]).val)])

\* lines 35-41: compute absolute error if not provided (or if NaNs present)
SynthesizeError(f) ==
    IF "Absolute Error" \notin f.columns
    THEN Assign(f, "Absolute Error",
                [i \in 1..Len(f.rows) |->
                    abs_diff(f.rows[i]["Forecasted value"], f.rows[i]["Actual value"])])
    ELSE LET g == Assign(f, "Absolute Error",
                         [i \in 1..Len(f.rows) |-> to_numeric(f.rows[i]["Absolute Error"])])
             missing_mask == [i \in 1..Len(g.rows) |->
                                 /\ isna(g.rows[i]["Absolute Error"])
                                 /\ notna(g.rows[i]["Forecasted value"])
                                 /\ notna(g.rows[i]["Actual value"])]
         IN  Assign(g, "Absolute Error",
                    [i \in 1..Len(g.rows) |->
                        IF missing_mask[i]
                        THEN abs_diff(g.rows[i]["Forecasted value"], g.rows[i]["Actual value"])
                        ELSE g.rows[i]["Absolute Error"]])

\* lines 25-32: normalise types and add the calendar day
NormalizeTypes(f) ==
    LET d1 == Assign(f, "Date", [i \in 1..Len(f.rows) |-> to_datetime(f.rows[i]["Date"])])
        d2 == IF "Forecasted value" \in d1.columns
              THEN Assign(d1, "Forecasted value",
                          [i \in 1..Len(d1.rows) |-> to_numeric(d1.rows[i]["Forecasted value"])])
              ELSE d1
        d3 == IF "Actual value" \in d2.columns
              THEN Assign(d2, "Actual value",
                          [i \in 1..Len(d2.rows) |-> to_numeric(d2.rows[i]["Actual value"])])
              ELSE d2
    IN  Assign(d3, "Forecast date", [i \in 1..Len(d3.rows) |-> dt_date(d3.rows[i]["Date"])])

load_data(src) == SynthesizeError(NormalizeTypes(src))

\* ------------------------------------------------------------ window filter

\* InWindow with the window opening one day early
InWindowOffByOne(r, end_d) ==
    LET start_d == end_d - WindowDays - 1
    IN  /\ r["Forecast date"].kind = "date"
        /\ r["Forecast date"].day >= start_d
        /\ r["Forecast date"].day <= end_d

\* lines 48-50: keep only the last 14 days; a comparison with NaT is False
InWindow(r, end_d) ==
    LET start_d == end_d - WindowDays
    IN  /\ r["Forecast date"].kind = "date"
        /\ r["Forecast date"].day >= start_d
        /\ r["Forecast date"].day <= end_d

RecentRows(f, end_d) ==
    LET keep(r) == InWindow(r, end_d)
    IN  Frame(f.columns, SelectSeq(f.rows, keep))

\* ------------------------------------------------------------------ box plot

\* strftime("%Y-%m-%d") of a calendar day: the label carries the day it spells
strftime(c) == [kind |-> "label", day |-> c.day, hour |-> 0]

SetMin(S) == CHOOSE x \in S : \A y \in S : x <= y
SetMax(S) == CHOOSE x \in S : \A y \in S : y <= x

\* line 55: nothing to plot
BoxPlotEmpty(recent) ==
    empty(recent) \/ empty(dropna(recent, {"Forecasted value"}))

\* lines 59-60: the label column
WithDateLabel(recent) ==
    Assign(recent, "date_label",
           [i \in 1..Len(recent.rows) |-> strftime(recent.rows[i]["Forecast date"])])

\* lines 64-78: the figure handed to st.plotly_chart
fig_box(recent) ==
    LET data == dropna(recent, {"Forecasted value"})
        ys == {data.rows[i]["Forecasted value"].val : i \in 1..Len(data.rows)}
        ymin == SetMin(ys)
        ymax == SetMax(ys)
    IN  [signal |-> "chart",
         rows |-> data.rows,
         range_y |-> <<IF ymin < 0 THEN ymin ELSE 0, ymax + 50>>]

NoFigure == [signal |-> "none", rows |-> <<>>, range_y |-> <<0, 0>>]
WarningA == [signal |-> "warning", rows |-> <<>>, range_y |-> <<0, 0>>]

\* ------------------------------------------------------------------- ranking

\* Pseudonyms the CSV may carry, in Python's string order (groupby sorts its keys)
Pseudonyms == <<"Mean of ensemble", "alice", "bob">>

\* RankingEmpty with the check dropped: the ranking is always computed
RankingEmptyNever(recent) == FALSE

\* RankingEmpty testing the rows the per-stream average keeps, which also
\* drops rows without a pseudonym
RankingEmptyPerStream(recent) ==
    empty(recent) \/ empty(dropna(recent, {"Pseudonym", "Absolute Error"}))

\* line 86: no error data at all
RankingEmpty(recent) ==
    empty(recent) \/ empty(dropna(recent, {"Absolute Error"}))

\* the values of column c in the rows of f whose column k holds key
GroupValues(f, k, key, c) ==
    LET member(r) == r[k] = key
        g == SelectSeq(f.rows, member)
    IN  [i \in 1..Len(g) |-> g[i][c].val]

\* PerStream keeping the rows whose error is missing and averaging them as
\* zero
PerStreamKeepsMissing(recent) ==
    LET rows == dropna(recent, {"Pseudonym"})
        present(name) == \E i \in 1..Len(rows.rows) : rows.rows[i]["Pseudonym"] = Str(name)
        keys == SelectSeq(Pseudonyms, present)
    IN  Frame({"Name", "Average Error"},
              [i \in 1..Len(keys) |->
                  [c \in {"Name", "Average Error"} |->
                      IF c = "Name" THEN Str(keys[i])
                      ELSE MeanInts(GroupValues(rows, "Pseudonym", Str(keys[i]),
                                                "Absolute Error"))]])

\* lines 90-96: per-stream mean absolute error
PerStream(recent) ==
    LET rows == dropna(recent, {"Pseudonym", "Absolute Error"})
        present(name) == \E i \in 1..Len(rows.rows) : rows.rows[i]["Pseudonym"] = Str(name)
        keys == SelectSeq(Pseudonyms, present)
    IN  Frame({"Name", "Average Error"},
              [i \in 1..Len(keys) |->
                  [c \in {"Name", "Average Error"} |->
                      IF c = "Name" THEN Str(keys[i])
                      ELSE MeanInts(GroupValues(rows, "Pseudonym", Str(keys[i]),
                                                "Absolute Error"))]])

\* line 100: rows where both forecast and actual exist
Valid(recent) == dropna(recent, {"Forecasted value", "Actual value"})

\* the days of a frame's "Forecast date" column, ascending
RECURSIVE AscendingDays(_)
AscendingDays(S) ==
    IF S = {} THEN <<>>
    ELSE LET m == SetMin(S) IN <<m>> \o AscendingDays(S \ {m})

DailyColumns ==
    {"Forecast date", "mean_fc", "median_fc", "actual", "Mean Error", "Median Error"}

\* Daily taking the last actual value of the day instead of the first
DailyLastActual(valid) ==
    LET days == AscendingDays({valid.rows[i]["Forecast date"].day : i \in 1..Len(valid.rows)})
        fcs(d) == GroupValues(valid, "Forecast date", Day(d), "Forecasted value")
        acts(d) == GroupValues(valid, "Forecast date", Day(d), "Actual value")
        mean_fc(d) == MeanInts(fcs(d))
        median_fc(d) == MedianInts(fcs(d))
        actual(d) == Rat(acts(d)[Len(acts(d))], 1)
        row(d) == [c \in DailyColumns |->
                      CASE c = "Forecast date" -> Day(d)
                        [] c = "mean_fc" -> mean_fc(d)
                        [] c = "median_fc" -> median_fc(d)
                        [] c = "actual" -> actual(d)
                        [] c = "Mean Error" -> RAbsDiff(mean_fc(d), actual(d))
                        [] OTHER -> RAbsDiff(median_fc(d), actual(d))]
    IN  Frame(DailyColumns, [i \in 1..Len(days) |-> row(days[i])])

\* lines 102-110: ensemble statistics per day
Daily(valid) ==
    LET days == AscendingDays({valid.rows[i]["Forecast date"].day : i \in 1..Len(valid.rows)})
        fcs(d) == GroupValues(valid, "Forecast date", Day(d), "Forecasted value")
        acts(d) == GroupValues(valid, "Forecast date", Day(d), "Actual value")
        mean_fc(d) == MeanInts(fcs(d))
        median_fc(d) == MedianInts(fcs(d))
        actual(d) == Rat(acts(d)[1], 1)
        row(d) == [c \in DailyColumns |->
                      CASE c = "Forecast date" -> Day(d)
                        [] c = "mean_fc" -> mean_fc(d)
                        [] c = "median_fc" -> median_fc(d)
                        [] c = "actual" -> actual(d)
                        [] c = "Mean Error" -> RAbsDiff(mean_fc(d), actual(d))
                        [] OTHER -> RAbsDiff(median_fc(d), actual(d))]
    IN  Frame(DailyColumns, [i \in 1..Len(days) |-> row(days[i])])

RankRow(name, avg) ==
    [c \in {"Name", "Average Error"} |-> IF c = "Name" THEN Str(name) ELSE avg]

\* lines 112-117: the two ensemble rows, or an empty frame
EnsembleRows(valid, daily) ==
    IF ~empty(valid)
    THEN Frame({"Name", "Average Error"},
               <<RankRow(MeanLabel, MeanRats(Column(daily, "Mean Error"))),
                 RankRow(MedianLabel, MeanRats(Column(daily, "Median Error")))>>)
    ELSE Frame({"Name", "Average Error"}, <<>>)

\* line 119: pd.concat([...], ignore_index=True)
Concat(f, g) == Frame(f.columns \cup g.columns, f.rows \o g.rows)

IsAscending(rows, c) ==
    \A i \in 1..Len(rows) : \A j \in 1..Len(rows) : i < j => RLeq(rows[i][c], rows[j][c])

\* line 120: sort_values (quicksort, not stable): every ascending arrangement of
\* the rows is a possible outcome
SortValues(f, c) ==
    {Frame(f.columns, [i \in 1..Len(f.rows) |-> f.rows[p[i]]]) :
        p \in {q \in Permutations(1..Len(f.rows)) :
                  IsAscending([i \in 1..Len(f.rows) |-> f.rows[q[i]]], c)}}

NoFrame == Frame({}, <<>>)
NoTable == [signal |-> "none", rows |-> <<>>]
WarningNoError == [signal |-> "warning_no_error_data", rows |-> <<>>]
WarningInsufficient == [signal |-> "warning_insufficient_data", rows |-> <<>>]
bar_fig(f) == [signal |-> "chart", rows |-> f.rows]

\* ------------------------------------------------------------- the script

VARIABLES
    source,         \* the CSV behind DATA_URL, as pd.read_csv returns it
    today,          \* date.today(), as a day number
    pc,             \* the section of the script that runs next
    df,             \* load_data's result
    df_recent,      \* the 14-day window
    tableA,         \* what the box plot section put on the page
    per_stream,
    valid,
    daily,
    ensemble_rows,
    summary,
    tableB,         \* what the ranking section put on the page
    bound           \* the names the ranking section has assigned

vars == <<source, today, pc, df, df_recent, tableA, per_stream, valid, daily,
          ensemble_rows, summary, tableB, bound>>

\* expected columns: Date, Forecasted value, Pseudonym, Actual value,
\* (optional) Absolute Error
ExpectedColumns == {"Date", "Forecasted value", "Pseudonym", "Actual value"}

CsvRow(d, p, f, a) ==
    [c \in ExpectedColumns |->
        CASE c = "Date" -> d
          [] c = "Pseudonym" -> p
          [] c = "Forecasted value" -> f
          [] OTHER -> a]

CsvRowWithError(d, p, f, a, e) ==
    [c \in ExpectedColumns \cup {"Absolute Error"} |->
        IF c = "Absolute Error" THEN e ELSE CsvRow(d, p, f, a)[c]]

SeqsUpTo(S, n) == UNION {[1..k -> S] : k \in 0..n}

Rows(dates, names, fvs, avs) ==
    {CsvRow(d, p, f, a) : d \in dates, p \in names, f \in fvs, a \in avs}

RowsWithError(dates, names, fvs, avs, errs) ==
    {CsvRowWithError(d, p, f, a, e) :
        d \in dates, p \in names, f \in fvs, a \in avs, e \in errs}

\* the CSVs of at most n rows: without the optional error column over the
\* rows plain, with it over the rows withError
Sources(plain, withError, n) ==
    {Frame(ExpectedColumns, rows) : rows \in SeqsUpTo(plain, n)}
    \cup
    {Frame(ExpectedColumns \cup {"Absolute Error"}, rows) : rows \in SeqsUpTo(withError, n)}

InitWith(sources, anchors) ==
    /\ source \in sources
    /\ today \in anchors
    /\ pc = "load"
    /\ df = NoFrame
    /\ df_recent = NoFrame
    /\ tableA = NoFigure
    /\ per_stream = NoFrame
    /\ valid = NoFrame
    /\ daily = NoFrame
    /\ ensemble_rows = NoFrame
    /\ summary = NoFrame
    /\ tableB = NoTable
    /\ bound = {}

\* line 45: df = load_data(DATA_URL)
LoadData ==
    /\ pc = "load"
    /\ df' = load_data(source)
    /\ pc' = "window"
    /\ UNCHANGED <<source, today, df_recent, tableA, per_stream, valid, daily,
                   ensemble_rows, summary, tableB, bound>>

\* lines 48-50
WindowFilter ==
    /\ pc = "window"
    /\ df_recent' = RecentRows(df, today)
    /\ pc' = "boxplot"
    /\ UNCHANGED <<source, today, df, tableA, per_stream, valid, daily,
                   ensemble_rows, summary, tableB, bound>>

\* lines 55-81
BoxPlot ==
    /\ pc = "boxplot"
    /\ IF BoxPlotEmpty(df_recent)
       THEN /\ tableA' = WarningA
            /\ UNCHANGED df_recent
       ELSE /\ df_recent' = WithDateLabel(df_recent)
            /\ tableA' = fig_box(df_recent')
    /\ pc' = "ranking"
    /\ UNCHANGED <<source, today, df, per_stream, valid, daily,
                   ensemble_rows, summary, tableB, bound>>

\* lines 86-145
Ranking ==
    /\ pc = "ranking"
    /\ IF RankingEmpty(df_recent)
       THEN /\ tableB' = WarningNoError
            /\ UNCHANGED <<per_stream, valid, daily, ensemble_rows, summary, bound>>
       ELSE /\ per_stream' = PerStream(df_recent)
            /\ valid' = Valid(df_recent)
            /\ daily' = IF ~empty(valid') THEN Daily(valid') ELSE daily
            /\ ensemble_rows' = EnsembleRows(valid', daily')
            /\ summary' \in SortValues(Concat(per_stream', ensemble_rows'), "Average Error")
            /\ tableB' = IF empty(summary') THEN WarningInsufficient ELSE bar_fig(summary')
            /\ bound' = {"per_stream", "valid", "ensemble_rows", "summary"}
                            \cup (IF ~empty(valid') THEN {"daily"} ELSE {})
    /\ pc' = "done"
    /\ UNCHANGED <<source, today, df, df_recent, tableA>>

Next == LoadData \/ WindowFilter \/ BoxPlot \/ Ranking

\* ------------------------------------------------------------------ inputs

\* alice forecasts on three days of the window, bob on the anchor day; the
\* actual value is present (above or below the forecast) or missing; the CSV
\* has no error column
ScenarioRows ==
    Rows({Ts(Anchor, 0), Ts(Anchor - 1, 0), Ts(Anchor - 2, 0)},
         {Str("alice")}, {Num(3)}, {Num(1), Num(6), NaN})
    \cup Rows({Ts(Anchor, 0)}, {Str("bob")}, {Num(3)}, {Num(1), Num(6), NaN})

Init == InitWith(Sources(ScenarioRows, {}, MaxScenarioRows), {Anchor})
Spec == Init /\ [][Next]_vars

\* error column absent, or present with missing, malformed, valid and negative
\* values, over present, missing and malformed forecast values and present
\* and missing actual values
LoadRows ==
    Rows({Ts(Anchor, 0)}, {Str("alice")}, {Num(3), NaN, Junk}, {Num(7), NaN})

LoadRowsWithError ==
    RowsWithError({Ts(Anchor, 0)}, {Str("alice")}, {Num(3), NaN, Junk}, {Num(7), NaN},
                  {Num(6), Num(-1), NaN, Junk})

InitLoad == InitWith(Sources(LoadRows, LoadRowsWithError, MaxRows), {Anchor})
SpecLoad == InitLoad /\ [][Next]_vars

\* the days at and next to both ends of the windows anchored at Anchor and at
\* Anchor - 1
BoundaryDays ==
    {Anchor - WindowDays - 2, Anchor - WindowDays - 1, Anchor - WindowDays,
     Anchor - WindowDays + 1, Anchor - 1, Anchor, Anchor + 1}

\* timestamps around both ends of the window, early and late in the day, and
\* missing or malformed timestamps
WindowRows ==
    Rows({Ts(d, h) : d \in BoundaryDays, h \in {0, 23}} \cup {NaT, JunkDate},
         {Str("alice")}, {Num(3)}, {Num(1)})

InitWindow == InitWith(Sources(WindowRows, {}, MaxRows), {Anchor, Anchor - 1})
SpecWindow == InitWindow /\ [][Next]_vars

\* alice on two days with missing forecast or actual values and diverging
\* actual values, a forecaster named like an ensemble row, and rows without
\* a pseudonym
RankRows ==
    Rows({Ts(Anchor, 0), Ts(Anchor - 1, 0)}, {Str("alice")},
         {Num(2), NaN}, {Num(1), Num(4), NaN})
    \cup Rows({Ts(Anchor, 0)}, {Str(MeanLabel), NoStr}, {Num(2)}, {Num(1), NaN})

\* the same with a partially populated error column
RankRowsWithError ==
    RowsWithError({Ts(Anchor, 0), Ts(Anchor - 1, 0)}, {Str("alice")},
                  {Num(2), NaN}, {Num(1), Num(4), NaN}, {Num(6), NaN})
    \cup RowsWithError({Ts(Anchor, 0)}, {Str(MeanLabel), NoStr}, {Num(2)}, {Num(1), NaN},
                       {Num(6), NaN})

InitRank == InitWith(Sources(RankRows, RankRowsWithError, MaxRows), {Anchor})
SpecRank == InitRank /\ [][Next]_vars

\* ------------------------------------------------------------ load claims

Loaded == pc # "load"
RowIds(f) == 1..Len(f.rows)
SourceHasErrorColumn == "Absolute Error" \in source.columns

\* the source supplied a number in the error column of row i
SuppliedError(i) == SourceHasErrorColumn /\ source.rows[i]["Absolute Error"].kind = "num"

\* the source holds a number in both the forecast and the actual column of row i
BothSupplied(i) ==
    /\ source.rows[i]["Forecasted value"].kind = "num"
    /\ source.rows[i]["Actual value"].kind = "num"

Distance(x, y) == IF x >= y THEN x - y ELSE y - x

\* C1: after loading, every record's absoluteError is non-negative or
\* missing, whatever the source, a source with its own error column included.
C1_ErrorNonNegative ==
    Loaded => \A i \in RowIds(df) :
        \/ isna(df.rows[i]["Absolute Error"])
        \/ df.rows[i]["Absolute Error"].val >= 0

\* C4: per record, a supplied numeric absoluteError is kept unchanged;
\* otherwise absoluteError is |forecastedValue - actualValue| when both are
\* present and missing when either is missing; with and without an error
\* column in the source.
C4_ErrorSynthesis ==
    Loaded =>
        /\ Len(df.rows) = Len(source.rows)
        /\ \A i \in RowIds(df) :
              df.rows[i]["Absolute Error"] =
                  IF SuppliedError(i) THEN source.rows[i]["Absolute Error"]
                  ELSE IF BothSupplied(i)
                       THEN Num(Distance(source.rows[i]["Forecasted value"].val,
                                         source.rows[i]["Actual value"].val))
                       ELSE NaN

\* a partially populated error column: one supplied value kept, one gap
\* filled from forecast 3 and actual 7, one gap left for want of an actual
C4_Witness ==
    /\ Loaded
    /\ SourceHasErrorColumn
    /\ \E i \in RowIds(df) : SuppliedError(i) /\ BothSupplied(i)
                             /\ df.rows[i]["Absolute Error"] = Num(6)
    /\ \E i \in RowIds(df) : ~SuppliedError(i) /\ BothSupplied(i)
                             /\ df.rows[i]["Absolute Error"] = Num(4)

\* C5: applying the synthesis step to its own output changes no record's
\* absoluteError.
C5_SynthesisIdempotent ==
    Loaded => Column(SynthesizeError(df), "Absolute Error") = Column(df, "Absolute Error")

\* the first application filled a gap and kept a supplied value
C5_Witness ==
    /\ Loaded
    /\ \E i \in RowIds(df) : ~SuppliedError(i) /\ notna(df.rows[i]["Absolute Error"])
    /\ \E i \in RowIds(df) : SuppliedError(i) /\ BothSupplied(i)

\* ---------------------------------------------------------- window claims

Windowed == pc \notin {"load", "window"}

\* the stored calendar day of row r lies in [anchor - 14 days, anchor]
DayInWindow(r) ==
    /\ r["Forecast date"].kind = "date"
    /\ today - WindowDays <= r["Forecast date"].day
    /\ r["Forecast date"].day <= today

\* row r of the window, cut down to the columns load_data returned
AsLoaded(r) == [c \in df.columns |-> r[c]]

\* C6: every record the window filter returns is one of the loaded records,
\* has a forecastDate, and that day lies in [anchor - 14 days, anchor], both
\* ends included; a record without a forecastDate is never returned.
C6_WindowFilter ==
    Windowed =>
        /\ \A j \in RowIds(df_recent) :
              /\ \E i \in RowIds(df) : df.rows[i] = AsLoaded(df_recent.rows[j])
              /\ notna(df_recent.rows[j]["Forecast date"])
              /\ notna(df_recent.rows[j]["Date"])
              /\ DayInWindow(df_recent.rows[j])
        /\ \A i \in RowIds(df) :
              df.rows[i]["Forecast date"] \in {Day(today - WindowDays), Day(today)} =>
                  \E j \in RowIds(df_recent) : AsLoaded(df_recent.rows[j]) = df.rows[i]

\* a record on the first day of the window is returned next to one that is
\* dropped for being a day older
C6_Witness ==
    /\ Windowed
    /\ Len(df.rows) = 2
    /\ Len(df_recent.rows) = 1
    /\ df_recent.rows[1]["Forecast date"] = Day(today - WindowDays)
    /\ \E i \in RowIds(df) : df.rows[i]["Forecast date"] = Day(today - WindowDays - 1)

NoRecordInWindow == \A i \in RowIds(df) : ~DayInWindow(df.rows[i])

\* C10: when no record falls in the window, both sections end in their
\* warning, no chart is produced, no aggregation runs, and the script runs to
\* its end.
C10_EmptyWindow ==
    (Windowed /\ NoRecordInWindow) =>
        /\ pc # "done" => ENABLED Next
        /\ pc \in {"ranking", "done"} => tableA = WarningA
        /\ pc = "done" => tableB = WarningNoError /\ bound = {}
        /\ tableA.signal # "chart" /\ tableB.signal # "chart"

\* the script has ended on a CSV whose records are all outside the window
C10_Witness ==
    /\ pc = "done"
    /\ Len(df.rows) = 2
    /\ NoRecordInWindow
    /\ tableA.signal = "warning"
    /\ tableB.signal = "warning_no_error_data"

\* ------------------------------------------------------- contribution claim

RECURSIVE SeqSum(_)
SeqSum(s) == IF s = <<>> THEN 0 ELSE Head(s) + SeqSum(Tail(s))

Complete(r) == notna(r["Forecasted value"]) /\ notna(r["Actual value"])

\* the absoluteError values of the windowed complete records of a forecaster
CompleteErrors(name) ==
    LET mine(r) == /\ r["Pseudonym"] = name
                   /\ Complete(r)
                   /\ notna(r["Absolute Error"])
        rows == SelectSeq(df_recent.rows, mine)
    IN  [i \in 1..Len(rows) |-> rows[i]["Absolute Error"].val]

\* C2: a record whose forecastedValue or actualValue is missing contributes
\* to no error computation: every forecaster average of Table B is the mean
\* over that forecaster's complete records only, the ensemble reads complete
\* records only, and Table A still shows every windowed record with a
\* forecastedValue.
C2_IncompleteNeverContributes ==
    pc = "done" =>
        /\ \A j \in RowIds(per_stream) :
              LET errs == CompleteErrors(per_stream.rows[j]["Name"])
                  avg == per_stream.rows[j]["Average Error"]
              IN  Len(errs) > 0 /\ avg[1] * Len(errs) = SeqSum(errs) * avg[2]
        /\ \A j \in RowIds(valid) : Complete(valid.rows[j])
        /\ \A i \in RowIds(df) :
              (DayInWindow(df.rows[i]) /\ notna(df.rows[i]["Forecasted value"])) =>
                  /\ tableA.signal = "chart"
                  /\ \E j \in 1..Len(tableA.rows) : AsLoaded(tableA.rows[j]) = df.rows[i]

\* ----------------------------------------------------------- ranking claims

Count(rows, r) == Cardinality({i \in 1..Len(rows) : rows[i] = r})

\* Table B holds exactly the forecaster rows and the ensemble rows, each as
\* often as it was computed
TableBIsConcat ==
    /\ Len(tableB.rows) = Len(per_stream.rows) + Len(ensemble_rows.rows)
    /\ \A j \in 1..Len(tableB.rows) :
          Count(tableB.rows, tableB.rows[j]) =
              Count(per_stream.rows, tableB.rows[j])
              + Count(ensemble_rows.rows, tableB.rows[j])

\* C3: Table B is sorted ascending by averageError and no two of its rows
\* have the same name, the two ensemble names included.
C3_SortedUniqueNames ==
    pc = "done" =>
        \A i \in 1..Len(tableB.rows) : \A j \in 1..Len(tableB.rows) :
            i < j =>
                /\ RLeq(tableB.rows[i]["Average Error"], tableB.rows[j]["Average Error"])
                /\ tableB.rows[i]["Name"] # tableB.rows[j]["Name"]

\* at least one windowed record has both forecastedValue and actualValue
SomeCompleteRecord == \E i \in RowIds(df) : DayInWindow(df.rows[i]) /\ Complete(df.rows[i])

\* C7: Table B holds the two ensemble rows, together and once each, exactly
\* when some windowed record has both forecastedValue and actualValue; the
\* check on non-missing absoluteError never suppresses them then.
C7_EnsembleRows ==
    pc = "done" =>
        IF SomeCompleteRecord
        THEN /\ tableB.signal = "chart"
             /\ Len(ensemble_rows.rows) = 2
             /\ ensemble_rows.rows[1]["Name"] = Str(MeanLabel)
             /\ ensemble_rows.rows[2]["Name"] = Str(MedianLabel)
             /\ TableBIsConcat
        ELSE /\ ensemble_rows.rows = <<>>
             /\ tableB.signal = "chart" => TableBIsConcat

\* the only complete record lacks a pseudonym and its error was a gap in the
\* source: the chart holds the two ensemble rows alone
C7_Witness ==
    /\ pc = "done"
    /\ SomeCompleteRecord
    /\ SourceHasErrorColumn
    /\ \A i \in RowIds(df) : ~SuppliedError(i)
    /\ per_stream.rows = <<>>
    /\ Len(tableB.rows) = 2

\* the days on which some windowed record has both values
QualifyingDays ==
    {df.rows[i]["Forecast date"].day :
        i \in {k \in RowIds(df) : DayInWindow(df.rows[k]) /\ Complete(df.rows[k])}}

\* the first record of day d, in input order, that has both values
FirstComplete(d) ==
    CHOOSE i \in RowIds(df) :
        /\ DayInWindow(df.rows[i]) /\ Complete(df.rows[i])
        /\ df.rows[i]["Forecast date"].day = d
        /\ \A k \in 1..(i - 1) :
              ~(DayInWindow(df.rows[k]) /\ Complete(df.rows[k])
                /\ df.rows[k]["Forecast date"].day = d)

\* C9: there is exactly one DailyEnsembleSummary for each day with a windowed
\* record that has both values and none for another day; its actual is the
\* actualValue of the first such record of the day in input order, also when
\* the day's records disagree; no error is raised: the ranking section ends
\* with the summaries assigned and its chart drawn.
C9_DailySummaries ==
    pc = "done" =>
        /\ Len(daily.rows) = Cardinality(QualifyingDays)
        /\ {daily.rows[j]["Forecast date"].day : j \in RowIds(daily)} = QualifyingDays
        /\ \A j \in RowIds(daily) :
              daily.rows[j]["actual"] =
                  <<df.rows[FirstComplete(daily.rows[j]["Forecast date"].day)]
                        ["Actual value"].val, 1>>
        /\ QualifyingDays # {} => "daily" \in bound /\ tableB.signal = "chart"

\* two complete records of one day disagree on the actual value (4, then 1)
\* and the day's summary holds the first
C9_Witness ==
    /\ pc = "done"
    /\ Len(df.rows) = 2
    /\ Complete(df.rows[1]) /\ Complete(df.rows[2])
    /\ df.rows[1]["Forecast date"] = df.rows[2]["Forecast date"]
    /\ df.rows[1]["Actual value"] = Num(4)
    /\ df.rows[2]["Actual value"] = Num(1)
    /\ Len(daily.rows) = 1
    /\ daily.rows[1]["actual"] = <<4, 1>>

\* the non-missing absoluteError values of a forecaster's windowed records
ForecasterErrors(name) ==
    LET mine(r) == /\ DayInWindow(r)
                   /\ r["Pseudonym"] = Str(name)
                   /\ notna(r["Absolute Error"])
        rows == SelectSeq(df.rows, mine)
    IN  [i \in 1..Len(rows) |-> rows[i]["Absolute Error"].val]

\* the forecaster rows computed for a name
ForecasterRows(name) == {j \in RowIds(per_stream) : per_stream.rows[j]["Name"] = Str(name)}

\* one forecaster, complete data, three days, all in the window
OneForecasterThreeDays ==
    /\ Cardinality({df.rows[i]["Pseudonym"] : i \in RowIds(df)}) = 1
    /\ \A i \in RowIds(df) :
          /\ DayInWindow(df.rows[i])
          /\ Complete(df.rows[i])
          /\ notna(df.rows[i]["Pseudonym"])
    /\ Cardinality({df.rows[i]["Forecast date"].day : i \in RowIds(df)}) = 3

\* C8: Table B has exactly one forecaster row for each forecaster with a
\* windowed record of non-missing absoluteError, its averageError the mean of
\* those values, and no row for any other forecaster; one forecaster with
\* complete data over three days gives exactly 3 rows.
C8_ForecasterRows ==
    pc = "done" =>
        /\ \A k \in 1..Len(Pseudonyms) :
              LET errs == ForecasterErrors(Pseudonyms[k])
                  rows == ForecasterRows(Pseudonyms[k])
              IN  IF Len(errs) > 0
                  THEN /\ Cardinality(rows) = 1
                       /\ \A j \in rows :
                             per_stream.rows[j]["Average Error"][1] * Len(errs) =
                                 SeqSum(errs) * per_stream.rows[j]["Average Error"][2]
                  ELSE rows = {}
        /\ IF tableB.signal = "chart" THEN TableBIsConcat ELSE per_stream.rows = <<>>
        /\ OneForecasterThreeDays => tableB.signal = "chart" /\ Len(tableB.rows) = 3

\* alice alone, on three days, errors 2, 2 and 3: her row averages 7/3 and
\* Table B has three rows
C8_Witness ==
    /\ pc = "done"
    /\ OneForecasterThreeDays
    /\ Len(tableB.rows) = 3
    /\ \E j \in 1..Len(tableB.rows) :
          /\ tableB.rows[j]["Name"] = Str("alice")
          /\ tableB.rows[j]["Average Error"] = <<7, 3>>

====
